---- MODULE Spec2Model ----
(***************************************************************************)
(* Modular inversion by the classic and the binary Extended Euclidean      *)
(* Algorithm (src/algebra/Proof and Implementation of Euclidean            *)
(* Inversion.rs and ... of Binary Euclidean Inversion.rs).                 *)
(*                                                                         *)
(* Both programs compute on i64.  The model keeps the two's-complement     *)
(* width, scaled down from 64 bits to W bits: every arithmetic operation   *)
(* of the source is computed exactly, tested against the W-bit range and   *)
(* then either panics (a build with overflow checks, Rust's debug          *)
(* profile) or wraps modulo 2^W (a build without them, the release         *)
(* profile).  The build is chosen once, in Init.                           *)
(***************************************************************************)
EXTENDS Integers, FiniteSets, Sequences, TLC

VARIABLES
    alg,     \* which program runs: "classic" or "binary"
    checks,  \* TRUE: overflow checks on (arithmetic overflow panics)
    x, n,    \* the arguments main passes to mod_inv
    pc,      \* position in the program
    s, x_s, b, x_b,   \* locals of the classic mod_inv (b also of the binary)
    a, u, v,          \* locals of the binary mod_inv
    ret,     \* the value mod_inv returned
    err      \* the panic raised, "none" while there is none

vars == <<alg, checks, x, n, pc, s, x_s, b, x_b, a, u, v, ret, err>>

\* Width of the machine integer (i64 scaled down).
W == 5

MinInt == -(2^(W-1))
MaxInt == 2^(W-1) - 1
I64 == MinInt..MaxInt

---------------------------------------------------------------------------
\* Machine arithmetic

Overflows(z) == z < MinInt \/ z > MaxInt

\* The W-bit two's-complement value of z.
Wrap(z) == ((z - MinInt) % (2^W)) + MinInt

Abs(z) == IF z < 0 THEN -z ELSE z

\* Rust's %: the remainder has the sign of the dividend (q # 0).
Rem(p, q) == IF p >= 0 THEN p % Abs(q) ELSE -((-p) % Abs(q))

\* Rust's /: the quotient is truncated towards zero (q # 0).
Div(p, q) ==
    LET m == Abs(p) \div Abs(q)
    IN  IF (p < 0) = (q < 0) THEN m ELSE -m

\* z >> 1 on a signed integer: the arithmetic shift, floor(z / 2).
Shr1(z) == z \div 2

\* (z & 1) > 0
Odd(z) == z % 2 = 1

Unset == [tag |-> "Unset", val |-> 0]
None == [tag |-> "None", val |-> 0]
Some(z) == [tag |-> "Some", val |-> z]

---------------------------------------------------------------------------
\* Classic mod_inv, as operators

\* The modulus check off by one: n = 1 is let through.
ModulusTooSmallOffByOne(nn) == nn < 1

\* if n < 2 { panic!(..) }
ModulusTooSmall(nn) == nn < 2

\* ((x % n) + n) % n
Normalize(xx, nn) ==
    LET t == Rem(xx, nn) + nn
    IN  [ovf |-> Overflows(t), val |-> Rem(Wrap(t), nn)]

\* The Euclidean step with the quotient's operands exchanged, q = s / b.
ClassicStepSwappedQuotient(ss, xs, bb, xb) ==
    LET q  == Div(ss, bb)
        m1 == q * ss
        d1 == bb - Wrap(m1)
        m2 == q * xs
        d2 == xb - Wrap(m2)
    IN  [ovf |-> Overflows(m1) \/ Overflows(d1) \/ Overflows(m2) \/ Overflows(d2),
         s |-> Wrap(d1), x_s |-> Wrap(d2), b |-> ss, x_b |-> xs]

\* let q = b / s; (s, x_s, b, x_b) = (b - q * s, x_b - q * x_s, s, x_s);
ClassicStep(ss, xs, bb, xb) ==
    LET q  == Div(bb, ss)
        m1 == q * ss
        d1 == bb - Wrap(m1)
        m2 == q * xs
        d2 == xb - Wrap(m2)
    IN  [ovf |-> Overflows(m1) \/ Overflows(d1) \/ Overflows(m2) \/ Overflows(d2),
         s |-> Wrap(d1), x_s |-> Wrap(d2), b |-> ss, x_b |-> xs]

\* if b == 1 { Some(if x_b < 0 { x_b + n } else { x_b }) } else { None }
ClassicResult(bb, xb, nn) ==
    IF bb = 1
    THEN IF xb < 0
         THEN [ovf |-> Overflows(xb + nn), ret |-> Some(Wrap(xb + nn))]
         ELSE [ovf |-> FALSE, ret |-> Some(xb)]
    ELSE [ovf |-> FALSE, ret |-> None]

---------------------------------------------------------------------------
\* Binary mod_inv, as operators

\* (a, u) = (a - b, u - v);
Subtract(aa, bb, uu, vv) ==
    [ovf |-> Overflows(aa - bb) \/ Overflows(uu - vv),
     a |-> Wrap(aa - bb), b |-> bb, u |-> Wrap(uu - vv), v |-> vv]

\* The subtraction of line 37 without its swap: b and v keep their values.
SwapSubtractNoSwap(aa, bb, uu, vv) ==
    [ovf |-> Overflows(bb - aa) \/ Overflows(vv - uu),
     a |-> Wrap(bb - aa), b |-> bb, u |-> Wrap(vv - uu), v |-> vv]

\* (a, b, u, v) = (b - a, a, v - u, u);
SwapSubtract(aa, bb, uu, vv) ==
    [ovf |-> Overflows(bb - aa) \/ Overflows(vv - uu),
     a |-> Wrap(bb - aa), b |-> aa, u |-> Wrap(vv - uu), v |-> uu]

\* if u < 0 { u += n; }
NormalizeU(uu, nn) ==
    IF uu < 0
    THEN [ovf |-> Overflows(uu + nn), u |-> Wrap(uu + nn)]
    ELSE [ovf |-> FALSE, u |-> uu]

\* if u & 1 > 0 { u += n; }  u = u >> 1;
HalveU(uu, nn) ==
    IF Odd(uu)
    THEN [ovf |-> Overflows(uu + nn), u |-> Shr1(Wrap(uu + nn))]
    ELSE [ovf |-> FALSE, u |-> Shr1(uu)]

---------------------------------------------------------------------------
\* The programs

Init ==
    /\ alg \in {"classic", "binary"}
    /\ checks \in BOOLEAN
    /\ x \in I64
    /\ n \in I64
    /\ pc = IF alg = "classic" THEN "c_entry" ELSE "b_entry"
    /\ s = 0 /\ x_s = 0 /\ b = 0 /\ x_b = 0
    /\ a = 0 /\ u = 0 /\ v = 0
    /\ ret = Unset
    /\ err = "none"

Panic(why) ==
    /\ pc' = "panic"
    /\ err' = why
    /\ UNCHANGED <<alg, checks, x, n, s, x_s, b, x_b, a, u, v, ret>>

\* Classic, line 12: the modulus check.
ClassicCheck ==
    /\ pc = "c_entry"
    /\ IF ModulusTooSmall(n)
       THEN Panic("modulus")
       ELSE /\ pc' = "c_norm"
            /\ UNCHANGED <<alg, checks, x, n, s, x_s, b, x_b, a, u, v, ret, err>>

\* Classic, line 14: the locals, with x reduced into [0, n).
ClassicInit ==
    /\ pc = "c_norm"
    /\ LET r == Normalize(x, n)
       IN  IF r.ovf /\ checks
           THEN Panic("overflow")
           ELSE /\ s' = r.val /\ x_s' = 1 /\ b' = n /\ x_b' = 0
                /\ pc' = "c_loop"
                /\ UNCHANGED <<alg, checks, x, n, a, u, v, ret, err>>

\* Classic, lines 20-23: one iteration of the loop.
ClassicIter ==
    /\ pc = "c_loop"
    /\ s > 0
    /\ LET r == ClassicStep(s, x_s, b, x_b)
       IN  IF r.ovf /\ checks
           THEN Panic("overflow")
           ELSE /\ s' = r.s /\ x_s' = r.x_s /\ b' = r.b /\ x_b' = r.x_b
                /\ UNCHANGED <<alg, checks, x, n, pc, a, u, v, ret, err>>

\* Classic, line 28: the loop has ended, the result.
ClassicReturn ==
    /\ pc = "c_loop"
    /\ ~(s > 0)
    /\ LET r == ClassicResult(b, x_b, n)
       IN  IF r.ovf /\ checks
           THEN Panic("overflow")
           ELSE /\ ret' = r.ret
                /\ pc' = "done"
                /\ UNCHANGED <<alg, checks, x, n, s, x_s, b, x_b, a, u, v, err>>

\* Binary, line 13: the locals.
BinaryInit ==
    /\ pc = "b_entry"
    /\ a' = x /\ b' = n /\ u' = 1 /\ v' = 0
    /\ pc' = "b_loop"
    /\ UNCHANGED <<alg, checks, x, n, s, x_s, x_b, ret, err>>

\* Binary, lines 26, 27, 34, 35: a is odd and a >= b.
BinarySub ==
    /\ pc = "b_loop"
    /\ a > 0 /\ Odd(a) /\ a >= b
    /\ LET r == Subtract(a, b, u, v)
       IN  IF r.ovf /\ checks
           THEN Panic("overflow")
           ELSE /\ a' = r.a /\ b' = r.b /\ u' = r.u /\ v' = r.v
                /\ pc' = "b_sub"
                /\ UNCHANGED <<alg, checks, x, n, s, x_s, x_b, ret, err>>

\* Binary, lines 26, 27, 34, 37: a is odd and a < b.
BinarySwapSub ==
    /\ pc = "b_loop"
    /\ a > 0 /\ Odd(a) /\ ~(a >= b)
    /\ LET r == SwapSubtract(a, b, u, v)
       IN  IF r.ovf /\ checks
           THEN Panic("overflow")
           ELSE /\ a' = r.a /\ b' = r.b /\ u' = r.u /\ v' = r.v
                /\ pc' = "b_swap"
                /\ UNCHANGED <<alg, checks, x, n, s, x_s, x_b, ret, err>>

\* Binary, line 40: u is made non-negative.
BinaryNorm ==
    /\ pc \in {"b_sub", "b_swap"}
    /\ LET r == NormalizeU(u, n)
       IN  IF r.ovf /\ checks
           THEN Panic("overflow")
           ELSE /\ u' = r.u
                /\ pc' = "b_halve"
                /\ UNCHANGED <<alg, checks, x, n, s, x_s, b, x_b, a, v, ret, err>>

\* Binary, lines 45-51: a and u are halved; reached from line 40, or from
\* line 27 when a is even.
BinaryHalve ==
    /\ IF pc = "b_loop" THEN a > 0 /\ ~Odd(a) ELSE pc = "b_halve"
    /\ LET r == HalveU(u, n)
       IN  IF r.ovf /\ checks
           THEN Panic("overflow")
           ELSE /\ a' = Shr1(a)
                /\ u' = r.u
                /\ pc' = "b_loop"
                /\ UNCHANGED <<alg, checks, x, n, s, x_s, b, x_b, v, ret, err>>

\* Binary, lines 26 and 53: the loop has ended, v is returned.
BinaryReturn ==
    /\ pc = "b_loop"
    /\ ~(a > 0)
    /\ ret' = Some(v)
    /\ pc' = "b_ret"
    /\ UNCHANGED <<alg, checks, x, n, s, x_s, b, x_b, a, u, v, err>>

\* Binary main, line 59: assert!((i * x) % n == 1, ..).
MainAssert ==
    /\ pc = "b_ret"
    /\ LET m == ret.val * x
       IN  IF Overflows(m) /\ checks
           THEN Panic("overflow")
           ELSE IF n = 0
           THEN Panic("remainder by zero")
           ELSE IF n = -1 /\ Wrap(m) = MinInt
           THEN Panic("overflow")
           ELSE IF Rem(Wrap(m), n) = 1
           THEN /\ pc' = "done"
                /\ UNCHANGED <<alg, checks, x, n, s, x_s, b, x_b, a, u, v, ret, err>>
           ELSE Panic("assert")

Next ==
    \/ ClassicCheck
    \/ ClassicInit
    \/ ClassicIter
    \/ ClassicReturn
    \/ BinaryInit
    \/ BinarySub
    \/ BinarySwapSub
    \/ BinaryNorm
    \/ BinaryHalve
    \/ BinaryReturn
    \/ MainAssert

Spec == Init /\ [][Next]_vars

---------------------------------------------------------------------------
\* The classic mod_inv as a function of its arguments: the same steps as
\* ClassicCheck, ClassicInit, ClassicIter and ClassicReturn, run to the end.

Panicked == [tag |-> "Panic", val |-> 0]

RECURSIVE ClassicLoop(_, _, _, _, _, _)
ClassicLoop(ss, xs, bb, xb, nn, chk) ==
    IF ss > 0
    THEN LET r == ClassicStep(ss, xs, bb, xb)
         IN  IF r.ovf /\ chk
             THEN Panicked
             ELSE ClassicLoop(r.s, r.x_s, r.b, r.x_b, nn, chk)
    ELSE LET r == ClassicResult(bb, xb, nn)
         IN  IF r.ovf /\ chk THEN Panicked ELSE r.ret

ClassicModInv(xx, nn, chk) ==
    IF ModulusTooSmall(nn)
    THEN Panicked
    ELSE LET r == Normalize(xx, nn)
         IN  IF r.ovf /\ chk
             THEN Panicked
             ELSE ClassicLoop(r.val, 1, nn, 0, nn, chk)

---------------------------------------------------------------------------
\* Vocabulary of the properties

RECURSIVE GCD(_, _)
GCD(p, q) == IF q = 0 THEN Abs(p) ELSE GCD(q, p % Abs(q))

\* The run has ended: mod_inv (and main's check of it) returned or panicked.
Ended == pc \in {"done", "panic"}

\* What the run produced: the returned value, or the panic.
Outcome == IF pc = "panic" THEN Panicked ELSE ret

\* The largest modulus for which (x % n) + n and u + n cannot leave the
\* W-bit range: 2n - 1 <= MaxInt.
HalfRange == 2^(W-2)

\* The binary mod_inv's documented precondition (source lines 9-11).
BinaryPre == Odd(n) /\ n > 0 /\ x > 0 /\ GCD(x, n) = 1

\* The binary mod_inv is at the loop head (line 26) or has left the loop.
AtLoopHead == pc \in {"b_loop", "b_ret"}

\* The scheduler never stops a running program: a step that can be taken is
\* eventually taken.
FairSpec == Spec /\ WF_vars(Next)

---------------------------------------------------------------------------
\* C4: for every n < 2 the classic mod_inv panics on the modulus check,
\* before line 14 or the loop has run: its only positions are the entry and
\* the panic, no local is assigned and nothing is returned.
C4_FatalPrecondition ==
    (alg = "classic" /\ n < 2) =>
        /\ pc \in {"c_entry", "panic"}
        /\ pc = "panic" => err = "modulus"
        /\ ret = Unset
        /\ <<s, x_s, b, x_b>> = <<0, 0, 0, 0>>

C4_Witness == alg = "classic" /\ n < 2 /\ pc = "panic" /\ err = "modulus"

\* The decreasing measures of C6: in the classic mod_inv (n >= 2) every iteration strictly decreases s
\* and leaves it >= 0; in the binary mod_inv (precondition met) the first
\* step of every iteration strictly decreases a + b, no later step of the
\* iteration increases it, and a and b stay >= 0.
C6_Decreasing ==
    [][ /\ (alg = "classic" /\ n >= 2 /\ pc = "c_loop" /\ pc' = "c_loop")
            => (s' < s /\ s' >= 0)
        /\ (alg = "binary" /\ BinaryPre
            /\ pc \in {"b_loop", "b_sub", "b_swap", "b_halve"})
            => /\ a' >= 0 /\ b' >= 0
               /\ a' + b' <= a + b
               /\ (pc = "b_loop" /\ a > 0 /\ pc' # "panic") => a' + b' < a + b
      ]_vars

\* The loops of C6 are left: the classic one, and the binary one with a = 0.
C6_LoopsExit ==
    /\ (alg = "classic" /\ n >= 2 /\ pc = "c_loop") ~> (pc # "c_loop")
    /\ (alg = "binary" /\ BinaryPre /\ pc = "b_loop")
           ~> (pc \in {"b_ret", "panic"} /\ (pc = "b_ret" => a = 0))

C6_WitnessClassic ==
    alg = "classic" /\ n >= 2 /\ pc = "c_loop" /\ s > 0 /\ b < n

\* C8 as stated: after the swap-and-subtract of line 37, a < b.
C8_RestoresOrder == pc = "b_swap" => a < b

\* C8, amended: the swap-and-subtract of line 37 (taken when a is odd and
\* 0 < a < b) makes b the old a, which is odd and smaller than the old b,
\* and a the positive difference, so that a + b is the old b; a < b holds
\* after it exactly when the old b was less than twice the old a.
C8_SwapSubtract ==
    [][ (pc = "b_loop" /\ pc' = "b_swap")
        => /\ Odd(a) /\ 0 < a /\ a < b
           /\ a' = b - a /\ b' = a
           /\ a' > 0 /\ Odd(b') /\ b' < b
           /\ a' + b' = b
           /\ (a' < b') <=> (b < 2 * a)
      ]_vars

C8_Witness == pc = "b_swap" /\ BinaryPre /\ a >= b

---------------------------------------------------------------------------
\* The classic mod_inv returned the inverse of x modulo n.
ReturnedInverse ==
    /\ pc = "done"
    /\ ret.tag = "Some"
    /\ 0 <= ret.val /\ ret.val < n
    /\ (ret.val * x) % n = 1

\* C1: for every x and every n >= 2 with gcd(x, n) = 1 the classic mod_inv
\* returns Some(v) with 0 <= v < n and (v * x) mod n = 1.
C1_RoundTrip ==
    (alg = "classic" /\ n >= 2 /\ GCD(x, n) = 1 /\ Ended) => ReturnedInverse

\* C1 holds for every modulus up to HalfRange, where line 14 cannot overflow.
C1_RoundTripHalfRange ==
    (alg = "classic" /\ n >= 2 /\ n <= HalfRange /\ GCD(x, n) = 1 /\ Ended)
        => ReturnedInverse

\* C2: for every x and every n >= 2 with gcd(x, n) > 1 the classic mod_inv
\* returns None: no Some, no panic.
C2_NonInvertible ==
    (alg = "classic" /\ n >= 2 /\ GCD(x, n) > 1 /\ Ended)
        => (pc = "done" /\ ret = None)

\* C2 holds for every modulus up to HalfRange, and for every modulus in a
\* build without overflow checks (the wrapped s is <= 0 and b = n is not 1).
C2_NonInvertibleHalfRange ==
    (alg = "classic" /\ n >= 2 /\ (n <= HalfRange \/ ~checks)
     /\ GCD(x, n) > 1 /\ Ended)
        => (pc = "done" /\ ret = None)

\* The binary mod_inv returned the inverse of x modulo n.
BinaryReturnedInverse ==
    /\ ret.tag = "Some"
    /\ 0 <= ret.val /\ ret.val < n
    /\ (ret.val * x) % n = 1
    /\ x = 1 => ret.val = 1

\* C3: for every odd n > 1 and every positive x with gcd(x, n) = 1 the
\* binary mod_inv returns v with 0 <= v < n and (v * x) mod n = 1, the
\* assertion of main does not fail, and mod_inv(1, n) = 1.
C3_BinaryRoundTrip ==
    (alg = "binary" /\ BinaryPre /\ n > 1 /\ pc \in {"b_ret", "done", "panic"})
        => (pc # "panic" /\ BinaryReturnedInverse)

\* C3 holds of mod_inv for every modulus up to HalfRange, and of the
\* assertion of main when, also, i * x fits the machine integer.
C3_BinaryRoundTripHalfRange ==
    (alg = "binary" /\ BinaryPre /\ n > 1 /\ n <= HalfRange
     /\ pc \in {"b_ret", "done", "panic"})
        => /\ BinaryReturnedInverse
           /\ err \in {"none", "overflow", "assert"}
           /\ pc = "panic" => Overflows(ret.val * x)

\* C5: for every n >= 2 the classic mod_inv gives the same result (the same
\* Some(v), or None) for x and for every x + k * n.
C5_ResidueOnly ==
    (alg = "classic" /\ n >= 2 /\ Ended) =>
        \A y \in I64 : (y - x) % n = 0 => ClassicModInv(y, n, checks) = Outcome

\* C5 holds for every modulus up to HalfRange.
C5_ResidueOnlyHalfRange ==
    (alg = "classic" /\ n >= 2 /\ n <= HalfRange /\ Ended) =>
        \A y \in I64 : (y - x) % n = 0 => ClassicModInv(y, n, checks) = Outcome

\* The run of the classic program and ClassicModInv are the same function.
ClassicModInvIsTheRun ==
    (alg = "classic" /\ Ended) => ClassicModInv(x, n, checks) = Outcome

\* C7: with n odd and positive, x positive and gcd(x, n) = 1, the binary
\* mod_inv has 0 <= u < n and 0 <= v < n after line 13, at the head of every
\* iteration and at the loop's exit.
C7_CoefficientRange ==
    (alg = "binary" /\ BinaryPre /\ AtLoopHead)
        => (0 <= u /\ u < n /\ 0 <= v /\ v < n)

\* C7 holds for every modulus from 3 up to HalfRange.
C7_CoefficientRangeHalfRange ==
    (alg = "binary" /\ BinaryPre /\ n > 1 /\ n <= HalfRange /\ AtLoopHead)
        => (0 <= u /\ u < n /\ 0 <= v /\ v < n)

\* The invariants (1), (3), (4), (5) of the binary mod_inv.
BinaryInvariant ==
    /\ Odd(b)
    /\ (a - u * x) % n = 0
    /\ (b - v * x) % n = 0
    /\ GCD(a, b) = 1
    /\ a = 0 => b = 1

\* C9: with n odd and positive, x positive and gcd(x, n) = 1, at the head of
\* every iteration and at the loop's exit b is odd, a = u * x (mod n),
\* b = v * x (mod n) and gcd(a, b) = 1; with a = 0, b = 1.
C9_LoopInvariant ==
    (alg = "binary" /\ BinaryPre /\ AtLoopHead) => BinaryInvariant

\* C9 holds for every modulus up to HalfRange, and for every modulus in a
\* build with overflow checks (which panics instead); what concerns a and b
\* alone holds always.
C9_LoopInvariantHalfRange ==
    (alg = "binary" /\ BinaryPre /\ AtLoopHead) =>
        /\ (n <= HalfRange \/ checks) => BinaryInvariant
        /\ Odd(b) /\ GCD(a, b) = 1
        /\ a = 0 => b = 1

\* C10: for every representable x and n >= 2 every intermediate value of the
\* classic mod_inv is representable: (x % n) + n, q * s, b - q * s, q * x_s,
\* x_b - q * x_s and x_b + n; the call ends without arithmetic overflow.
C10_NoOverflow ==
    (alg = "classic" /\ n >= 2) =>
        /\ pc = "c_norm" => ~Normalize(x, n).ovf
        /\ (pc = "c_loop" /\ s > 0) => ~ClassicStep(s, x_s, b, x_b).ovf
        /\ (pc = "c_loop" /\ ~(s > 0)) => ~ClassicResult(b, x_b, n).ovf
        /\ err # "overflow"

\* C10 holds of the loop and of the result for every modulus, with
\* |x_s| <= n and |x_b| <= n, and of line 14 for every modulus up to HalfRange.
C10_NoOverflowPastLine14 ==
    (alg = "classic" /\ n >= 2) =>
        /\ (pc = "c_norm" /\ n <= HalfRange) => ~Normalize(x, n).ovf
        /\ (pc = "c_loop" /\ s > 0) => ~ClassicStep(s, x_s, b, x_b).ovf
        /\ (pc = "c_loop" /\ ~(s > 0)) => ~ClassicResult(b, x_b, n).ovf
        /\ pc = "c_loop" => (Abs(x_s) <= n /\ Abs(x_b) <= n)

====
